---- MODULE Spec2Model ----
(***************************************************************************)
(* In-place vulnerability remediation of a resolved dependency graph:      *)
(* ComputeChains (internal/resolution/dependency_chain.go) and             *)
(* ComputeInPlacePatches with findFixedVersion, inPlaceVulnsNodes,         *)
(* buildConstraintSet and dependenciesSatisfied (package remediation).     *)
(*                                                                         *)
(* Four state machines share the module:                                   *)
(*   SpecChains / FairChains  the work-queue loop of ComputeChains         *)
(*   SpecFind                 findFixedVersion on bounded version lists    *)
(*   SpecDeps                 dependenciesSatisfied on bounded inputs      *)
(*   Spec                     ComputeInPlacePatches, run up to MaxRuns     *)
(*                            times on the same inputs                     *)
(***************************************************************************)
EXTENDS Integers, Sequences, FiniteSets, TLC

VARIABLES
    \* ComputeChains
    g,              \* g.Edges of the graph handed to ComputeChains
    i,              \* position of the outer loop in nodes (1-based)
    toProcess,      \* the work queue of the current target
    allChains,      \* allChains[i]: the chains emitted for nodes[i]
    pc,             \* "seed" | "loop" | "done"
    \* findFixedVersion
    vers,           \* what cl.Versions returned
    satisfy,        \* the versions the predicate accepts
    fixed,          \* what findFixedVersion returned
    \* dependenciesSatisfied
    reqs,           \* what cl.Requirements returned
    children,       \* the current children of the vulnerable node
    satisfied,      \* what dependenciesSatisfied returned
    \* ComputeInPlacePatches
    graph,          \* the resolved graph: [Nodes, Edges]
    cl,             \* the collaborator responses
    opts,           \* RemediationOptions
    result,         \* the InPlaceResult of the last run
    err,            \* the error of the last run ("nil" when none)
    callFailed,     \* a collaborator call of the last run's searches failed
    vkDependentConstraint,  \* the constraint sets the last run built
    runs,           \* number of runs done
    prevResult,     \* the InPlaceResult of the run before
    prevErr         \* the error of the run before

varsChains == <<g, i, toProcess, allChains, pc>>
varsFind == <<vers, satisfy, fixed>>
varsDeps == <<reqs, children, satisfied>>
varsInPlace == <<graph, cl, opts, result, err, callFailed, vkDependentConstraint,
                 runs, prevResult, prevErr>>
vars == <<varsChains, varsFind, varsDeps, varsInPlace>>

\* ---------------------------------------------------------------- bounds
NumNodes == 3
MaxEdges == 3
MaxVers == 3
MaxReqs == 2
MaxChildren == 2
MaxRuns == 2

\* ---------------------------------------------------------------- helpers
Indices(s) == [k \in 1..Len(s) |-> k]

SeqsUpTo(S, n) == UNION {[1..k -> S] : k \in 0..n}

RECURSIVE Concat(_)
Concat(ss) == IF ss = <<>> THEN <<>> ELSE Head(ss) \o Concat(Tail(ss))

\* ======================================================================
\* ComputeChains
\* ======================================================================

\* parentEdges[n]: the incoming edges of n in g.Edges order, self-dependencies
\* dropped. Edges are named by their position in g.Edges.
ParentEdges(edges, n) ==
    LET Incoming(k) == edges[k].To = n /\ edges[k].From # edges[k].To
    IN  SelectSeq(Indices(edges), Incoming)

\* The seed of the queue: one single-edge chain per incoming edge of the target.
SeedChains(edges, node) ==
    LET pe == ParentEdges(edges, node)
    IN  [k \in 1..Len(pe) |-> <<pe[k]>>]

\* slices.ContainsFunc(chain.Edges, func(e) bool { return e.To == pEdge.To })
ChainContainsTo(edges, chain, n) == \E k \in 1..Len(chain) : edges[chain[k]].To = n

\* Mutant: the cycle check left out.
ExtendChainNoCycleCheck(edges, chain) ==
    LET pe == ParentEdges(edges, edges[chain[Len(chain)]].From)
    IN  [k \in 1..Len(pe) |-> Append(chain, pe[k])]

\* The chains queued when a chain that has not reached the root is popped.
ExtendChain(edges, chain) ==
    LET pe == ParentEdges(edges, edges[chain[Len(chain)]].From)
        NoCycle(p) == ~ChainContainsTo(edges, chain, edges[p].To)
        kept == SelectSeq(pe, NoCycle)
    IN  [k \in 1..Len(kept) |-> Append(chain, kept[k])]

\* The for len(toProcess) > 0 loop, run to its end.
RECURSIVE RunQueue(_, _, _)
RunQueue(edges, queue, out) ==
    IF queue = <<>> THEN out
    ELSE LET chain == Head(queue)
         IN  IF edges[chain[Len(chain)]].From = 0
             THEN RunQueue(edges, Tail(queue), Append(out, chain))
             ELSE RunQueue(edges, Tail(queue) \o ExtendChain(edges, chain), out)

\* allChains[i] for one target node.
ComputeChains(edges, node) == RunQueue(edges, SeedChains(edges, node), <<>>)

\* --- the loop as a state machine ---------------------------------------

NodeIDs == 0..(NumNodes - 1)

\* The targets: every node of the graph, in NodeID order.
nodes == [k \in 1..NumNodes |-> k - 1]

EdgeShapes == [From : NodeIDs, To : NodeIDs, Requirement : {"*"}]

\* No queued chain is longer than the number of nodes (ChainsBounded below);
\* the guard of Extend stops a model without the cycle check from growing
\* chains for ever.
MaxChainLen == NumNodes + 1

IdleChains ==
    /\ g = <<>> /\ i = 0 /\ toProcess = <<>> /\ allChains = <<>> /\ pc = "idle"

\* A machine that is not the one under check stays in its idle state; a
\* result whose err is "idle" is one not computed yet.
IdleFind ==
    /\ vers = [err |-> "idle", list |-> <<>>]
    /\ satisfy = {}
    /\ fixed = [err |-> "idle"]

IdleDeps ==
    /\ reqs = [err |-> "idle", list |-> <<>>]
    /\ children = <<>>
    /\ satisfied = [ok |-> FALSE, err |-> "idle"]

IdleInPlace ==
    /\ graph = [Nodes |-> <<>>, Edges |-> <<>>]
    /\ cl = [FindVulnsErr |-> "idle"]
    /\ opts = [AllowMajor |-> FALSE, AvoidPkgs |-> <<>>, Ignored |-> {}]
    /\ result = [Patches |-> <<>>, Unfixable |-> <<>>]
    /\ err = "idle" /\ callFailed = FALSE /\ vkDependentConstraint = <<>>
    /\ runs = 0
    /\ prevResult = [Patches |-> <<>>, Unfixable |-> <<>>]
    /\ prevErr = "idle"

InitChains ==
    /\ g \in SeqsUpTo(EdgeShapes, MaxEdges)
    /\ i = 1
    /\ toProcess = <<>>
    /\ allChains = [k \in 1..Len(nodes) |-> <<>>]
    /\ pc = "seed"
    /\ IdleFind /\ IdleDeps /\ IdleInPlace

\* for _, pEdge := range parentEdges[node] { toProcess = append(...) }
Seed ==
    /\ pc = "seed"
    /\ toProcess' = SeedChains(g, nodes[i])
    /\ pc' = "loop"
    /\ UNCHANGED <<g, i, allChains>>
    /\ UNCHANGED <<varsFind, varsDeps, varsInPlace>>

\* The popped chain ends at the root: add it to the final list.
Emit ==
    /\ pc = "loop" /\ toProcess # <<>>
    /\ LET chain == Head(toProcess)
       IN  /\ g[chain[Len(chain)]].From = 0
           /\ allChains' = [allChains EXCEPT ![i] = Append(@, chain)]
    /\ toProcess' = Tail(toProcess)
    /\ UNCHANGED <<g, i, pc>>
    /\ UNCHANGED <<varsFind, varsDeps, varsInPlace>>

\* The popped chain has not reached the root: queue its extensions.
Extend ==
    /\ pc = "loop" /\ toProcess # <<>>
    /\ LET chain == Head(toProcess)
       IN  /\ g[chain[Len(chain)]].From # 0
           /\ Len(chain) < MaxChainLen
           /\ toProcess' = Tail(toProcess) \o ExtendChain(g, chain)
    /\ UNCHANGED <<g, i, allChains, pc>>
    /\ UNCHANGED <<varsFind, varsDeps, varsInPlace>>

\* The queue is empty: on to the next target, or return allChains.
NextTarget ==
    /\ pc = "loop" /\ toProcess = <<>>
    /\ IF i < Len(nodes)
       THEN i' = i + 1 /\ pc' = "seed"
       ELSE i' = i /\ pc' = "done"
    /\ UNCHANGED <<g, toProcess, allChains>>
    /\ UNCHANGED <<varsFind, varsDeps, varsInPlace>>

NextChains == Seed \/ Emit \/ Extend \/ NextTarget

SpecChains == InitChains /\ [][NextChains]_vars

\* ComputeChains runs on one goroutine with no blocking call: a step that can
\* be taken is taken.
FairChains == SpecChains /\ WF_vars(NextChains)

\* The step machine and the operator used by inPlaceVulnsNodes agree.
ChainsAgree ==
    pc = "done" => \A k \in 1..Len(nodes) : allChains[k] = ComputeChains(g, nodes[k])

\* No queued chain is longer than the number of nodes.
ChainsBounded == \A k \in 1..Len(toProcess) : Len(toProcess[k]) <= NumNodes

\* --- the paths of the graph, defined without the queue -----------------

\* The nodes a chain visits, target first.
Visited(edges, chain) ==
    <<edges[chain[1]].To>> \o [k \in 1..Len(chain) |-> edges[chain[k]].From]

\* chain is a path from node 0 to target, target-side edge first, that uses
\* no self-loop edge and visits no node twice.
IsSimplePath(edges, chain, target) ==
    /\ Len(chain) >= 1
    /\ edges[chain[1]].To = target
    /\ edges[chain[Len(chain)]].From = 0
    /\ \A k \in 1..Len(chain) : edges[chain[k]].From # edges[chain[k]].To
    /\ \A k \in 1..(Len(chain) - 1) : edges[chain[k]].From = edges[chain[k + 1]].To
    /\ LET v == Visited(edges, chain)
       IN  \A a, b \in 1..Len(v) : a # b => v[a] # v[b]

SimplePaths(edges, target) ==
    {c \in UNION {[1..k -> 1..Len(edges)] : k \in 1..NumNodes} :
        IsSimplePath(edges, c, target)}

Range(s) == {s[k] : k \in 1..Len(s)}

NoDuplicates(s) == \A a, b \in 1..Len(s) : a # b => s[a] # s[b]

\* C4: for every graph and every target node, the chains returned are exactly
\* the simple paths from the root to the target over the non-self-loop edges,
\* each returned once.
C4_ChainsAreSimplePaths ==
    pc = "done" =>
        \A k \in 1..Len(nodes) :
            /\ Range(allChains[k]) = SimplePaths(g, nodes[k])
            /\ NoDuplicates(allChains[k])

\* The same statement for the targets other than the root (it holds).
ChainsAreSimplePathsBelowRoot ==
    pc = "done" =>
        \A k \in 1..Len(nodes) :
            nodes[k] # 0 =>
                /\ Range(allChains[k]) = SimplePaths(g, nodes[k])
                /\ NoDuplicates(allChains[k])

\* C9: ComputeChains terminates on every finite graph: the queue of every
\* target empties and the function returns.
C9_ComputeChainsTerminates == <>(pc = "done")

\* A run that returned on a graph with a dependency cycle below the root and
\* emitted a chain.
C9_Witness ==
    /\ pc = "done"
    /\ \E a, b \in 1..Len(g) :
        /\ g[a].From = g[b].To /\ g[a].To = g[b].From /\ g[a].From # g[a].To
        /\ g[a].From # 0 /\ g[a].To # 0
    /\ \E a \in 1..Len(g) : g[a].From = 0
    /\ \E k \in 1..Len(nodes) : allChains[k] # <<>>

\* ======================================================================
\* Versions and constraints (deps.dev semver, as the code calls it)
\* ======================================================================

Versions == {"1.0.0", "1.1.0", "2.0.0"}

Major(v) == IF v = "2.0.0" THEN 2 ELSE 1

Minor(v) == IF v = "1.1.0" THEN 1 ELSE 0

\* a.Semver().Compare(a.Version, b.Version): negative, zero or positive.
SemverCompare(a, b) ==
    IF Major(a) # Major(b) THEN Major(a) - Major(b) ELSE Minor(a) - Minor(b)

\* vk.Semver().Difference(vk.Version, newVK.Version) yields semver.DiffMajor.
DiffMajor(a, b) == Major(a) # Major(b)

\* cmp.Compare on strings; the version strings and package names of the model
\* sort lexically in this order.
StrRank(s) ==
    CASE s = "1.0.0" -> 1 [] s = "1.1.0" -> 2 [] s = "2.0.0" -> 3
      [] s = "a" -> 4 [] s = "b" -> 5 [] s = "c" -> 6 [] OTHER -> 7

StrCompare(a, b) == StrRank(a) - StrRank(b)

\* sys.ParseConstraint(v): the versions the constraint matches, or an error.
\* "latest" is a dist-tag, not a constraint: it does not parse.
ParseConstraint(v) ==
    CASE v = "*" -> [err |-> FALSE, set |-> Versions]
      [] v = "^1.0.0" -> [err |-> FALSE, set |-> {"1.0.0", "1.1.0"}]
      [] v = "^1.1.0" -> [err |-> FALSE, set |-> {"1.1.0"}]
      [] v = "^2.0.0" -> [err |-> FALSE, set |-> {"2.0.0"}]
      [] v \in Versions -> [err |-> FALSE, set |-> {v}]
      [] OTHER -> [err |-> TRUE, set |-> {}]

\* if v == "latest" { v = "*" }
LatestAsWildcard(v) == IF v = "latest" THEN "*" ELSE v

\* ======================================================================
\* findFixedVersion
\* ======================================================================

VersionTypes == {"Concrete", "Requirement"}

VersionEntries == [Version : Versions, VersionType : VersionTypes]

\* slices.SortFunc(vers, ...): ascending by the package's version comparison.
InsertVersion(sorted, e) ==
    LET n == Cardinality({k \in 1..Len(sorted) :
                            SemverCompare(sorted[k].Version, e.Version) <= 0})
    IN  SubSeq(sorted, 1, n) \o <<e>> \o SubSeq(sorted, n + 1, Len(sorted))

RECURSIVE SortVersions(_)
SortVersions(list) ==
    IF list = <<>> THEN <<>>
    ELSE InsertVersion(SortVersions(SubSeq(list, 1, Len(list) - 1)), list[Len(list)])

errInPlaceImpossible == "cannot find a version satisfying in-place constraints"

NoVersion == [Version |-> "", VersionType |-> ""]

\* Mutant: the scan runs from the earliest version to the latest.
RECURSIVE ScanUp(_, _, _)
ScanUp(sorted, k, satifyFn) ==
    IF k > Len(sorted) THEN [err |-> errInPlaceImpossible, vk |-> NoVersion]
    ELSE IF sorted[k].VersionType = "Concrete" /\ satifyFn[sorted[k].Version]
         THEN [err |-> "nil", vk |-> sorted[k]]
         ELSE ScanUp(sorted, k + 1, satifyFn)

ScanVersionsFromEarliest(sorted, k, satifyFn) == ScanUp(sorted, 1, satifyFn)

\* for i := len(vers) - 1; i >= 0; i-- { ... }: the first Concrete entry, from
\* the latest down, that the predicate accepts. satifyFn is the predicate as a
\* function of the candidate's version.
RECURSIVE ScanVersions(_, _, _)
ScanVersions(sorted, k, satifyFn) ==
    IF k = 0 THEN [err |-> errInPlaceImpossible, vk |-> NoVersion]
    ELSE IF sorted[k].VersionType = "Concrete" /\ satifyFn[sorted[k].Version]
         THEN [err |-> "nil", vk |-> sorted[k]]
         ELSE ScanVersions(sorted, k - 1, satifyFn)

\* resp is what cl.Versions(ctx, pk) returned: [err, list].
findFixedVersion(resp, satifyFn) ==
    IF resp.err # "nil" THEN [err |-> resp.err, vk |-> NoVersion]
    ELSE LET sorted == SortVersions(resp.list)
         IN  ScanVersions(sorted, Len(sorted), satifyFn)

VersionsResponses ==
    {[err |-> "nil", list |-> l] : l \in SeqsUpTo(VersionEntries, MaxVers)}
        \cup {[err |-> "versions unavailable", list |-> <<>>]}

InitFind ==
    /\ vers \in VersionsResponses
    /\ satisfy \in SUBSET Versions
    /\ fixed = [err |-> "idle"]
    /\ IdleChains /\ IdleDeps /\ IdleInPlace

FindFixedVersion ==
    /\ fixed.err = "idle"
    /\ fixed' = findFixedVersion(vers, [v \in Versions |-> v \in satisfy])
    /\ UNCHANGED <<vers, satisfy>>
    /\ UNCHANGED <<varsChains, varsDeps, varsInPlace>>

NextFind == FindFixedVersion

SpecFind == InitFind /\ [][NextFind]_vars

\* The Concrete entries of the list that the predicate accepts.
Acceptable ==
    {vers.list[k] : k \in {j \in 1..Len(vers.list) :
        vers.list[j].VersionType = "Concrete" /\ vers.list[j].Version \in satisfy}}

\* C7: on every version list that Versions returns, findFixedVersion returns
\* the greatest Concrete entry that the predicate accepts, never a Requirement
\* entry, and the impossible error exactly when no Concrete entry is accepted.
C7_HighestConcreteSatisfying ==
    (fixed.err # "idle" /\ vers.err = "nil") =>
        /\ (fixed.err = errInPlaceImpossible) <=> (Acceptable = {})
        /\ fixed.err \in {"nil", errInPlaceImpossible}
        /\ fixed.err = "nil" =>
            /\ fixed.vk \in Acceptable
            /\ fixed.vk.VersionType = "Concrete"
            /\ \A e \in Acceptable : SemverCompare(e.Version, fixed.vk.Version) <= 0

\* An unsorted list with two accepted Concrete entries and an accepted
\* Requirement entry above them: the higher Concrete one is returned.
C7_Witness ==
    /\ fixed.err # "idle" /\ vers.err = "nil" /\ Len(vers.list) = 3
    /\ vers.list[1] = [Version |-> "1.1.0", VersionType |-> "Concrete"]
    /\ vers.list[2] = [Version |-> "2.0.0", VersionType |-> "Requirement"]
    /\ vers.list[3] = [Version |-> "1.0.0", VersionType |-> "Concrete"]
    /\ satisfy = Versions
    /\ fixed = [err |-> "nil", vk |-> [Version |-> "1.1.0", VersionType |-> "Concrete"]]

\* ======================================================================
\* dependenciesSatisfied
\* ======================================================================

\* slices.ContainsFunc(children, func(vk) bool { return vk.Name == name })
HasChild(kids, name) == \E k \in 1..Len(kids) : kids[k].Name = name

\* slices.IndexFunc(deps, func(vk) bool { return vk.Name == name }), 1-based;
\* 0 where the code gets -1.
IndexOfName(deps, name) ==
    IF \E k \in 1..Len(deps) : deps[k].Name = name
    THEN CHOOSE k \in 1..Len(deps) :
            /\ deps[k].Name = name
            /\ \A j \in 1..(k - 1) : deps[j].Name # name
    ELSE 0

\* The loop over optDeps. slices.Delete(deps, idx, idx+1) with idx = -1 slices
\* deps[-1:0]: a run-time panic.
RECURSIVE RemoveOptional(_, _, _)
RemoveOptional(deps, optDeps, kids) ==
    IF optDeps = <<>> THEN [panic |-> FALSE, deps |-> deps]
    ELSE IF HasChild(kids, Head(optDeps).Name)
         THEN RemoveOptional(deps, Tail(optDeps), kids)
         ELSE LET idx == IndexOfName(deps, Head(optDeps).Name)
              IN  IF idx = 0 THEN [panic |-> TRUE, deps |-> deps]
                  ELSE RemoveOptional(SubSeq(deps, 1, idx - 1)
                                          \o SubSeq(deps, idx + 1, Len(deps)),
                                      Tail(optDeps), kids)

\* The loop over the remaining regular deps, from deps[k] on.
RECURSIVE CheckDeps(_, _, _)
CheckDeps(deps, k, kids) ==
    IF k > Len(deps) THEN [ok |-> TRUE, err |-> "nil"]
    ELSE LET constr == ParseConstraint(LatestAsWildcard(deps[k].Version))
         IN  IF constr.err THEN [ok |-> FALSE, err |-> "invalid constraint"]
             ELSE IF \E c \in 1..Len(kids) :
                        kids[c].Name = deps[k].Name /\ kids[c].Version \in constr.set
                  THEN CheckDeps(deps, k + 1, kids)
                  ELSE [ok |-> FALSE, err |-> "nil"]

IsRegular(r) == r.Type = "regular"

IsOpt(r) == r.Type = "opt"

\* resp is what cl.Requirements(ctx, vk) returned: [err, list]. The result is
\* (ok, err); err = "panic" stands for the call not returning at all.
CheckRemaining(removed, kids) ==
    IF removed.panic THEN [ok |-> FALSE, err |-> "panic"]
    ELSE CheckDeps(removed.deps, 1, kids)

dependenciesSatisfied(resp, kids) ==
    IF resp.err # "nil" THEN [ok |-> FALSE, err |-> resp.err]
    ELSE CheckRemaining(RemoveOptional(SelectSeq(resp.list, IsRegular),
                                       SelectSeq(resp.list, IsOpt), kids), kids)

DepNames == {"b", "c"}

\* Type: a regular dependency, one with the dep.Opt attribute, or one with
\* another attribute (dev).
RequirementEntries ==
    [Name : DepNames, Version : {"latest", "^1.0.0", "oops"},
     Type : {"regular", "opt", "dev"}]

ChildEntries == [Name : DepNames, Version : {"1.0.0", "2.0.0"}]

RequirementsResponses ==
    {[err |-> "nil", list |-> l] : l \in SeqsUpTo(RequirementEntries, MaxReqs)}
        \cup {[err |-> "requirements unavailable", list |-> <<>>]}

InitDeps ==
    /\ reqs \in RequirementsResponses
    /\ children \in SeqsUpTo(ChildEntries, MaxChildren)
    /\ satisfied = [ok |-> FALSE, err |-> "idle"]
    /\ IdleChains /\ IdleFind /\ IdleInPlace

DependenciesSatisfied ==
    /\ satisfied.err = "idle"
    /\ satisfied' = dependenciesSatisfied(reqs, children)
    /\ UNCHANGED <<reqs, children>>
    /\ UNCHANGED <<varsChains, varsFind, varsInPlace>>

NextDeps == DependenciesSatisfied

SpecDeps == InitDeps /\ [][NextDeps]_vars

\* The declared requirements by kind.
RegularDeps == {reqs.list[k] : k \in {j \in 1..Len(reqs.list) : IsRegular(reqs.list[j])}}

OptionalNames == {reqs.list[k].Name : k \in {j \in 1..Len(reqs.list) : IsOpt(reqs.list[j])}}

\* Some child has the dependency's package name and a version its constraint
\* matches.
MetByChild(d) ==
    LET constr == ParseConstraint(LatestAsWildcard(d.Version))
    IN  /\ ~constr.err
        /\ \E c \in 1..Len(children) :
              children[c].Name = d.Name /\ children[c].Version \in constr.set

\* C8: dependenciesSatisfied returns a result, and returns true exactly when
\* every regular dependency, other than those whose package is also declared
\* optional and has no child of that name, is met by a child.
C8_SatisfiedIffRegularDepsMet ==
    (satisfied.err # "idle" /\ reqs.err = "nil") =>
        /\ satisfied.err # "panic"
        /\ satisfied.ok <=>
            \A d \in RegularDeps :
                \/ (d.Name \in OptionalNames /\ ~HasChild(children, d.Name))
                \/ MetByChild(d)

\* ======================================================================
\* inPlaceVulnsNodes
\* ======================================================================

\* graph.Nodes[n].Version for NodeID n (Nodes is 1-based here).
NodeVersion(gr, n) == gr.Nodes[n + 1]

GraphNodeIDs(gr) == [k \in 1..Len(gr.Nodes) |-> k - 1]

VulnIDs == <<"OSV-1", "OSV-2">>

\* vulns.IsAffected(vuln, pkg at version): the vulnerability database.
IsAffected(c, id, vk) == vk \in c.Affected[id]

\* cl.FindVulns(graph)[n]: the vulnerabilities that affect node n's version.
FindVulns(gr, c, n) ==
    LET Hits(id) == IsAffected(c, id, NodeVersion(gr, n))
    IN  SelectSeq(VulnIDs, Hits)

\* nodeIDs: the nodes with at least one vulnerability, in NodeID order.
VulnerableNodes(gr, c) ==
    LET Vulnerable(n) == FindVulns(gr, c, n) # <<>>
    IN  SelectSeq(GraphNodeIDs(gr), Vulnerable)

\* result.nodeDependencies[n]: the versions of the direct dependencies of n,
\* in g.Edges order.
NodeDependencies(gr, n) ==
    LET From(k) == gr.Edges[k].From = n
        out == SelectSeq(Indices(gr.Edges), From)
    IN  [k \in 1..Len(out) |-> NodeVersion(gr, gr.Edges[out[k]].To)]

\* result.vkNodes[vk]
VkNodes(gr, c, vk) ==
    LET Is(n) == NodeVersion(gr, n) = vk
    IN  SelectSeq(VulnerableNodes(gr, c), Is)

\* One ResolutionVuln added to result.vkVulns[vk]: merged into the entry with
\* the same ID, or appended.
AddVuln(list, id, chains) ==
    IF \E k \in 1..Len(list) : list[k].ID = id
    THEN LET idx == CHOOSE k \in 1..Len(list) :
                        list[k].ID = id /\ \A j \in 1..(k - 1) : list[j].ID # id
         IN  [list EXCEPT ![idx].ProblemChains = @ \o chains]
    ELSE Append(list, [ID |-> id, ProblemChains |-> chains])

RECURSIVE AddVulns(_, _, _)
AddVulns(list, ids, chains) ==
    IF ids = <<>> THEN list
    ELSE AddVulns(AddVuln(list, Head(ids), chains), Tail(ids), chains)

RECURSIVE VulnsOfNodes(_, _, _, _)
VulnsOfNodes(gr, c, nIDs, list) ==
    IF nIDs = <<>> THEN list
    ELSE VulnsOfNodes(gr, c, Tail(nIDs),
                      AddVulns(list, FindVulns(gr, c, Head(nIDs)),
                               ComputeChains(gr.Edges, Head(nIDs))))

\* result.vkVulns[vk]
VkVulns(gr, c, vk) == VulnsOfNodes(gr, c, VkNodes(gr, c, vk), <<>>)

\* The keys of result.vkVulns.
VulnerableVKs(gr, c) ==
    {NodeVersion(gr, n) : n \in Range(VulnerableNodes(gr, c))}

\* ======================================================================
\* buildConstraintSet
\* ======================================================================

\* chain.EndDependency(): the requirement of dc.Edges[0].
EndRequirement(gr, chain) == gr.Edges[chain[1]].Requirement

\* reqVers: the requirement of the first edge of every problem chain.
ReqVers(gr, vulnList) ==
    UNION {{EndRequirement(gr, vulnList[k].ProblemChains[j]) :
                j \in 1..Len(vulnList[k].ProblemChains)} : k \in 1..Len(vulnList)}

\* maps.Keys(reqVers): the keys in some order. Intersection commutes and any
\* unparsable key fails the build, so one order stands for all.
MapKeys(S) ==
    CHOOSE s \in [1..Cardinality(S) -> S] : \A a, b \in DOMAIN s : a # b => s[a] # s[b]

RECURSIVE IntersectFrom(_, _, _)
IntersectFrom(cSet, requiredVers, k) ==
    IF k > Len(requiredVers) THEN [err |-> "nil", set |-> cSet]
    ELSE LET c == ParseConstraint(LatestAsWildcard(requiredVers[k]))
         IN  IF c.err THEN [err |-> "invalid constraint", set |-> {}]
             ELSE IntersectFrom(cSet \cap c.set, requiredVers, k + 1)

\* requiredVers[0] of an empty list is an index out of range: a panic.
buildConstraintSet(requiredVers) ==
    IF requiredVers = <<>> THEN [err |-> "panic", set |-> {}]
    ELSE IntersectFrom(Versions, requiredVers, 1)

\* ======================================================================
\* ComputeInPlacePatches
\* ======================================================================

\* The first loop: what buildConstraintSet returned for every key of vkVulns.
\* An entry with an error is one the loop skips (continue).
BuiltConstraints(gr, c) ==
    [vk \in VulnerableVKs(gr, c) |->
        buildConstraintSet(MapKeys(ReqVers(gr, VkVulns(gr, c, vk))))]

\* opts.MatchVuln(vuln)
MatchVuln(o, vuln) == vuln.ID \notin o.Ignored

\* Mutant: the avoid-list is not consulted.
AvoidedNever(o, name) == FALSE

\* slices.Contains(opts.AvoidPkgs, vk.Name)
Avoided(o, name) == \E k \in 1..Len(o.AvoidPkgs) : o.AvoidPkgs[k] = name

\* The loop over res.vkNodes[vk]: the first call of dependenciesSatisfied that
\* does not return (true, nil) decides. results[k] is what the call for the
\* k-th node returns.
FirstDecisive(results) ==
    IF \E k \in 1..Len(results) : results[k].err # "nil" \/ ~results[k].ok
    THEN results[CHOOSE k \in 1..Len(results) :
                    /\ results[k].err # "nil" \/ ~results[k].ok
                    /\ \A j \in 1..(k - 1) : results[j].err = "nil" /\ results[j].ok]
    ELSE [ok |-> TRUE, err |-> "nil"]

DepsOfNodes(gr, c, newVK, nIDs) ==
    FirstDecisive([k \in 1..Len(nIDs) |->
                    dependenciesSatisfied(c.Requirements[newVK.Name],
                                          NodeDependencies(gr, nIDs[k]))])

Rejected == [ok |-> FALSE, failed |-> FALSE, panic |-> FALSE]

\* The end of the predicate: d is the outcome of the dependency check,
\* affected what vulns.IsAffected says of the candidate.
SatisfyAfterDeps(d, affected) ==
    IF d.err = "panic" THEN [ok |-> FALSE, failed |-> FALSE, panic |-> TRUE]
    ELSE IF d.err # "nil" THEN [ok |-> FALSE, failed |-> TRUE, panic |-> FALSE]
    ELSE IF ~d.ok THEN Rejected
    ELSE [ok |-> ~affected, failed |-> FALSE, panic |-> FALSE]

\* Mutant: the candidate is not re-checked against the vulnerability.
SatisfyWithoutRecheck(gr, c, o, cons, vk, id, newVersion) ==
    IF ~o.AllowMajor /\ DiffMajor(vk.Version, newVersion) THEN Rejected
    ELSE IF cons[vk].err # "nil" \/ newVersion \notin cons[vk].set THEN Rejected
    ELSE SatisfyAfterDeps(DepsOfNodes(gr, c, [Name |-> vk.Name, Version |-> newVersion],
                                      VkNodes(gr, c, vk)),
                          FALSE)

\* The predicate handed to findFixedVersion, for the vulnerability id of vk and
\* a candidate version. ok is what it returns; failed says that a collaborator
\* call made inside it returned an error (which the predicate turns into
\* false); panic that dependenciesSatisfied panicked.
Satisfy(gr, c, o, cons, vk, id, newVersion) ==
    IF ~o.AllowMajor /\ DiffMajor(vk.Version, newVersion) THEN Rejected
    ELSE IF cons[vk].err # "nil" \/ newVersion \notin cons[vk].set THEN Rejected
    ELSE SatisfyAfterDeps(DepsOfNodes(gr, c, [Name |-> vk.Name, Version |-> newVersion],
                                      VkNodes(gr, c, vk)),
                          IsAffected(c, id, [Name |-> vk.Name, Version |-> newVersion]))

\* The candidates the predicate was called on: the Concrete entries from the
\* latest down to the one the scan stopped at.
Called(resp, found) ==
    {resp.list[k].Version : k \in {j \in 1..Len(resp.list) :
        /\ resp.list[j].VersionType = "Concrete"
        /\ \/ found.err # "nil"
           \/ SemverCompare(resp.list[j].Version, found.vk.Version) >= 0}}

\* What the search returns, given what findFixedVersion found: failed collects
\* the errors of the predicate calls made.
SearchOutcome(resp, out, found) ==
    IF resp.err # "nil"
    THEN [err |-> resp.err, vk |-> NoVersion, failed |-> TRUE]
    ELSE IF found.err = "nil" /\ out[found.vk.Version].panic
    THEN [err |-> "panic", vk |-> NoVersion,
          failed |-> \E v \in Called(resp, found) : out[v].failed]
    ELSE [err |-> found.err, vk |-> found.vk,
          failed |-> \E v \in Called(resp, found) : out[v].failed]

\* findFixedVersion with the predicate out. The scan stops at the first
\* candidate the predicate accepts or panics on.
SearchWith(resp, out) ==
    SearchOutcome(resp, out,
                  findFixedVersion(resp, [v \in Versions |-> out[v].ok \/ out[v].panic]))

Search(gr, c, o, cons, vk, id) ==
    SearchWith(c.Versions[vk.Name],
               [v \in Versions |-> Satisfy(gr, c, o, cons, vk, id, v)])

SamePatch(p, dp) ==
    p.Pkg = dp.Pkg /\ p.OrigVersion = dp.OrigVersion /\ p.NewVersion = dp.NewVersion

\* The find-or-create of the patch for dp.
AddPatch(patches, dp, vuln) ==
    IF \E k \in 1..Len(patches) : SamePatch(patches[k], dp)
    THEN LET idx == CHOOSE k \in 1..Len(patches) :
                        /\ SamePatch(patches[k], dp)
                        /\ \A j \in 1..(k - 1) : ~SamePatch(patches[j], dp)
         IN  [patches EXCEPT ![idx].ResolvedVulns = Append(@, vuln)]
    ELSE Append(patches, [Pkg |-> dp.Pkg, OrigVersion |-> dp.OrigVersion,
                          NewVersion |-> dp.NewVersion, ResolvedVulns |-> <<vuln>>])

\* The inner loop after the search s of one vulnerability: acc is the result
\* so far, the error that ended the run, and whether a collaborator call failed.
AfterSearch(acc, vk, vuln, s) ==
    IF s.err = errInPlaceImpossible
    THEN [acc EXCEPT !.Unfixable = Append(@, vuln), !.failed = @ \/ s.failed]
    ELSE IF s.err # "nil"
    THEN [acc EXCEPT !.err = s.err, !.failed = @ \/ s.failed]
    ELSE [acc EXCEPT !.failed = @ \/ s.failed,
                     !.Patches = AddPatch(@, [Pkg |-> vk.Name,
                                              OrigVersion |-> vk.Version,
                                              NewVersion |-> s.vk.Version],
                                          vuln)]

\* The body of the inner loop for one vulnerability of vk.
HandleVuln(gr, c, o, cons, acc, vk, vuln) ==
    IF ~MatchVuln(o, vuln) THEN acc
    ELSE IF Avoided(o, vk.Name)
    THEN [acc EXCEPT !.Unfixable = Append(@, vuln)]
    ELSE AfterSearch(acc, vk, vuln, Search(gr, c, o, cons, vk, vuln.ID))

\* The two nested loops over res.vkVulns, flattened: work[k] is (vk, vuln).
RECURSIVE VulnLoop(_, _, _, _, _, _, _)
VulnLoop(gr, c, o, cons, work, k, acc) ==
    IF k > Len(work) \/ acc.err # "nil" THEN acc
    ELSE VulnLoop(gr, c, o, cons, work, k + 1,
                  HandleVuln(gr, c, o, cons, acc, work[k].vk, work[k].vuln))

\* The comparison of the final sort.
PatchCompare(a, b) ==
    IF Len(a.ResolvedVulns) # Len(b.ResolvedVulns)
    THEN Len(b.ResolvedVulns) - Len(a.ResolvedVulns)
    ELSE IF StrCompare(a.Pkg, b.Pkg) # 0 THEN StrCompare(a.Pkg, b.Pkg)
    ELSE IF StrCompare(a.OrigVersion, b.OrigVersion) # 0
    THEN StrCompare(a.OrigVersion, b.OrigVersion)
    ELSE StrCompare(b.NewVersion, a.NewVersion)

InsertPatch(sorted, p) ==
    LET n == Cardinality({k \in 1..Len(sorted) : PatchCompare(sorted[k], p) <= 0})
    IN  SubSeq(sorted, 1, n) \o <<p>> \o SubSeq(sorted, n + 1, Len(sorted))

RECURSIVE SortPatches(_)
SortPatches(list) ==
    IF list = <<>> THEN <<>>
    ELSE InsertPatch(SortPatches(SubSeq(list, 1, Len(list) - 1)), list[Len(list)])

EmptyResult == [Patches |-> <<>>, Unfixable |-> <<>>]

\* The orders in which a range over the map res.vkVulns can visit its keys.
KeyOrders(gr, c) ==
    LET S == VulnerableVKs(gr, c)
    IN  {s \in [1..Cardinality(S) -> S] : \A a, b \in DOMAIN s : a # b => s[a] # s[b]}

WorkOf(vk, vulnList) == [j \in 1..Len(vulnList) |-> [vk |-> vk, vuln |-> vulnList[j]]]

\* The (vk, vuln) pairs in the order the loops visit them.
WorkList(gr, c, order) ==
    Concat([k \in 1..Len(order) |-> WorkOf(order[k], VkVulns(gr, c, order[k]))])

\* The constraint sets that were built: the entries of vkDependentConstraint.
Built(cons) ==
    [vk \in {k \in DOMAIN cons : cons[k].err = "nil"} |-> cons[vk].set]

\* What the call returns once the loops have run; err = "panic" stands for the
\* call not returning.
Return(cons, acc) ==
    IF acc.err # "nil"
    THEN [result |-> EmptyResult, err |-> acc.err, failed |-> acc.failed,
          constraints |-> Built(cons)]
    ELSE [result |-> [Patches |-> SortPatches(acc.Patches),
                      Unfixable |-> acc.Unfixable],
          err |-> "nil", failed |-> acc.failed, constraints |-> Built(cons)]

\* The call from the first loop on; cons is what buildConstraintSet returned
\* for every key.
ComputeWith(gr, c, o, order, cons) ==
    IF \E vk \in DOMAIN cons : cons[vk].err = "panic"
    THEN [result |-> EmptyResult, err |-> "panic", failed |-> FALSE,
          constraints |-> <<>>]
    ELSE Return(cons, VulnLoop(gr, c, o, cons, WorkList(gr, c, order), 1,
                               [Patches |-> <<>>, Unfixable |-> <<>>,
                                err |-> "nil", failed |-> FALSE]))

\* One call, with the second loop visiting the keys of res.vkVulns in order.
ComputeInPlacePatches(gr, c, o, order) ==
    IF c.FindVulnsErr # "nil"
    THEN [result |-> EmptyResult, err |-> c.FindVulnsErr, failed |-> FALSE,
          constraints |-> <<>>]
    ELSE ComputeWith(gr, c, o, order, BuiltConstraints(gr, c))

\* --- the inputs --------------------------------------------------------

VK(name, version) == [Name |-> name, Version |-> version]

OptEdge(from, to, req) ==
    IF req = "absent" THEN <<>>
    ELSE <<[From |-> from, To |-> to, Requirement |-> req]>>

\* Node 0 is the root; node 1 is package a; node 2 is package b, or a second
\* node of a@1.0.0. Each of the edges 0->1, 0->2, 1->2, 2->1 is absent or
\* carries a requirement string.
Graphs ==
    {[Nodes |-> <<VK("root", "1.0.0"), n[1], n[2]>>,
      Edges |-> OptEdge(0, 1, r[1]) \o OptEdge(0, 2, r[2])
                    \o OptEdge(1, 2, r[3]) \o OptEdge(2, 1, r[4])] :
        n \in {<<VK("a", "1.0.0"), VK("b", "1.0.0")>>,
               <<VK("a", "1.1.0"), VK("b", "1.0.0")>>,
               <<VK("a", "1.0.0"), VK("a", "1.0.0")>>},
        r \in {"absent", "latest", "^1.0.0", "oops"} \X {"absent", "*"}
                \X {"absent", "^1.0.0"} \X {"absent", "1.0.0"}}

AffectedSets ==
    [{"OSV-1"} -> {{VK("a", "1.0.0")}, {VK("a", "1.1.0")},
                   {VK("a", "1.0.0"), VK("a", "1.1.0")}}]

AffectedSets2 ==
    [{"OSV-2"} -> {{VK("a", "1.0.0")}, {VK("b", "1.0.0")}}]

Concrete(v) == [Version |-> v, VersionType |-> "Concrete"]

VersionsOfA ==
    {[err |-> "versions unavailable", list |-> <<>>],
     [err |-> "nil", list |-> <<Concrete("1.1.0"), Concrete("2.0.0"), Concrete("1.0.0")>>]}

VersionsOfB ==
    {[err |-> "nil", list |-> <<Concrete("1.0.0")>>],
     [err |-> "nil", list |-> <<Concrete("1.1.0"), Concrete("1.0.0")>>]}

Requirement(name, version, type) == [Name |-> name, Version |-> version, Type |-> type]

RequirementsOfA ==
    {[err |-> "requirements unavailable", list |-> <<>>],
     [err |-> "nil", list |-> <<>>],
     [err |-> "nil", list |-> <<Requirement("b", "^1.0.0", "regular")>>],
     [err |-> "nil", list |-> <<Requirement("b", "oops", "regular")>>],
     [err |-> "nil", list |-> <<Requirement("c", "latest", "opt")>>]}

Options ==
    [AllowMajor : BOOLEAN, AvoidPkgs : {<<>>, <<"a">>}, Ignored : {{}, {"OSV-1"}}]

Clients ==
    {[FindVulnsErr |-> "nil",
      Affected |-> a1 @@ a2,
      Versions |-> [n \in {"a", "b"} |-> IF n = "a" THEN va ELSE vb],
      Requirements |-> [n \in {"a", "b"} |->
                            IF n = "a" THEN ra ELSE [err |-> "nil", list |-> <<>>]]] :
        a1 \in AffectedSets, a2 \in AffectedSets2, va \in VersionsOfA,
        vb \in VersionsOfB, ra \in RequirementsOfA}

\* The same clients with FindVulns failing.
FailingClients ==
    {[c EXCEPT !.FindVulnsErr = "vulnerabilities unavailable"] :
        c \in {d \in Clients : d.Versions["a"].err = "nil"
                                /\ Len(d.Versions["b"].list) = 1
                                /\ d.Requirements["a"].list = <<>>}}

\* The clients whose Versions and Requirements calls succeed, a declaring no
\* requirement.
PlainClients ==
    {c \in Clients : c.Versions["a"].err = "nil"
                        /\ c.Requirements["a"] = [err |-> "nil", list |-> <<>>]}

\* The graphs root -> a [-> second node] whose requirements parse.
ChainGraphs ==
    {gr \in Graphs :
        /\ gr.Edges # <<>>
        /\ \A k \in 1..Len(gr.Edges) :
            /\ gr.Edges[k].To = gr.Edges[k].From + 1
            /\ gr.Edges[k].Requirement # "oops"
        /\ gr.Edges[1].From = 0}

\* Every graph with the plain clients, and every client on the chain graphs.
Inputs ==
    (Graphs \X PlainClients) \cup (ChainGraphs \X (Clients \cup FailingClients))

NotRun == [Patches |-> <<>>, Unfixable |-> <<>>]

Init ==
    /\ \E in \in Inputs : graph = in[1] /\ cl = in[2]
    /\ opts \in Options
    /\ result = NotRun
    /\ err = "idle"
    /\ callFailed = FALSE
    /\ vkDependentConstraint = <<>>
    /\ runs = 0
    /\ prevResult = NotRun
    /\ prevErr = "idle"
    /\ IdleChains /\ IdleFind /\ IdleDeps

\* The call returns out.
Returns(out) ==
    /\ result' = out.result
    /\ err' = out.err
    /\ callFailed' = out.failed
    /\ vkDependentConstraint' = out.constraints

\* One call of ComputeInPlacePatches on the inputs; the map iteration order
\* is whatever the run-time picks.
Compute ==
    /\ runs < MaxRuns
    /\ \E order \in KeyOrders(graph, cl) :
            Returns(ComputeInPlacePatches(graph, cl, opts, order))
    /\ prevResult' = result
    /\ prevErr' = err
    /\ runs' = runs + 1
    /\ UNCHANGED <<graph, cl, opts>>
    /\ UNCHANGED <<varsChains, varsFind, varsDeps>>

Next == Compute

Spec == Init /\ [][Next]_vars

\* --- the claims about ComputeInPlacePatches ----------------------------

Returned == err # "idle" /\ err # "panic"

\* C1: if a collaborator call made during a candidate search fails (Versions,
\* Requirements, or the parsing of a candidate's requirement string), the call
\* returns that error with an empty InPlaceResult.
C1_SearchErrorsAbort ==
    (Returned /\ callFailed) => (err # "nil" /\ result = EmptyResult)

\* What does hold: a failed Versions call, and only that, ends the run.
VersionsErrorsAbort ==
    Returned =>
        /\ err \in {"nil", "versions unavailable", "vulnerabilities unavailable"}
        /\ err # "nil" => result = EmptyResult

\* FindVulns reported the vulnerability id on a node of pkg at version.
ReportedOn(id, pkg, version) ==
    \E n \in Range(GraphNodeIDs(graph)) :
        /\ NodeVersion(graph, n) = VK(pkg, version)
        /\ id \in Range(FindVulns(graph, cl, n))

\* C2: every vulnerability in a patch's ResolvedVulns was reported on a node
\* of the patch's package at its original version, and does not affect the
\* package at the new version.
C2_PatchesFixReportedVulns ==
    \A k \in 1..Len(result.Patches) :
        \A j \in 1..Len(result.Patches[k].ResolvedVulns) :
            LET P == result.Patches[k]
                V == P.ResolvedVulns[j]
            IN  /\ ReportedOn(V.ID, P.Pkg, P.OrigVersion)
                /\ ~IsAffected(cl, V.ID, VK(P.Pkg, P.NewVersion))

\* A result with a patch that resolves two vulnerabilities, found although a
\* later version of the package is still affected by one of them.
C2_Witness ==
    /\ err = "nil"
    /\ \E k \in 1..Len(result.Patches) :
        /\ Len(result.Patches[k].ResolvedVulns) = 2
        /\ result.Patches[k].OrigVersion = "1.0.0"
        /\ result.Patches[k].NewVersion = "2.0.0"
        /\ IsAffected(cl, "OSV-1", VK(result.Patches[k].Pkg, "1.1.0"))

InUnfixable(vuln) == vuln \in Range(result.Unfixable)

InSomePatch(vuln) ==
    \E k \in 1..Len(result.Patches) : vuln \in Range(result.Patches[k].ResolvedVulns)

\* The vulnerabilities on the packages of AvoidPkgs, as inPlaceVulnsNodes
\* aggregates them.
AvoidedVulns ==
    UNION {Range(VkVulns(graph, cl, vk)) :
            vk \in {k \in VulnerableVKs(graph, cl) : k.Name \in Range(opts.AvoidPkgs)}}

\* C3 as stated: every vulnerability on a package of AvoidPkgs is in Unfixable
\* and in no patch, whatever the vulnerability filter decides for it.
C3_AvoidedAlwaysUnfixable ==
    err = "nil" =>
        \A vuln \in AvoidedVulns : InUnfixable(vuln) /\ ~InSomePatch(vuln)

\* C3 as amended: every vulnerability on a package of AvoidPkgs that passes
\* the vulnerability filter is in Unfixable, and none, filtered or not, is in
\* a patch.
C3_AvoidedMatchingUnfixable ==
    err = "nil" =>
        \A vuln \in AvoidedVulns :
            /\ vuln.ID \notin opts.Ignored => InUnfixable(vuln)
            /\ vuln.ID \in opts.Ignored => ~InUnfixable(vuln)
            /\ ~InSomePatch(vuln)

\* A run in which package a is avoided, has a fixed version on offer, and has
\* one vulnerability that passes the filter and one that does not.
C3_Witness ==
    /\ err = "nil"
    /\ opts.AvoidPkgs = <<"a">> /\ opts.Ignored = {"OSV-1"}
    /\ \E v, w \in AvoidedVulns : v.ID = "OSV-1" /\ w.ID = "OSV-2" /\ InUnfixable(w)
    /\ cl.Versions["a"].err = "nil"
    /\ result.Patches = <<>>

\* Every node but the root has a path from the root.
AllReachable ==
    \A n \in Range(GraphNodeIDs(graph)) : n # 0 => SimplePaths(graph.Edges, n) # {}

\* The versions matched by the requirement of every edge into a node of vk.
DependentsConstraint(vk) ==
    LET into == {k \in 1..Len(graph.Edges) : NodeVersion(graph, graph.Edges[k].To) = vk}
    IN  {v \in Versions :
            \A k \in into :
                v \in ParseConstraint(LatestAsWildcard(graph.Edges[k].Requirement)).set}

\* C5: the constraint set built for a vulnerable VersionKey is the
\* intersection of the requirements of every edge into a node of that
\* VersionKey, dependents on a cycle with the vulnerable node included.
\* (Stated on the graphs in which every node is reachable from the root and
\* no two nodes share a VersionKey.)
C5_ConstraintIsAllDependents ==
    (AllReachable /\ NoDuplicates(graph.Nodes)) =>
        \A vk \in DOMAIN vkDependentConstraint :
            vkDependentConstraint[vk] = DependentsConstraint(vk)

\* C6: two runs on the same inputs that both return a result return the same
\* Patches and the same Unfixable, in the same order.
C6_RunsAgree ==
    (runs >= 2 /\ err = "nil" /\ prevErr = "nil") => result = prevResult

\* What does hold: the Patches agree.
PatchesAgree ==
    (runs >= 2 /\ err = "nil" /\ prevErr = "nil") => result.Patches = prevResult.Patches

\* C10: every patch is a version bump: NewVersion is greater than OrigVersion.
C10_PatchesAreBumps ==
    \A k \in 1..Len(result.Patches) :
        SemverCompare(result.Patches[k].NewVersion, result.Patches[k].OrigVersion) > 0

====
